---- MODULE Spec2Model ----
(***************************************************************************)
(* A model of generator.py: the template expander (process_question,      *)
(* evaluate_embedded_expressions), the inline-math extractor              *)
(* (generate_latex_images, process_text_with_latex), the item and         *)
(* manifest encoders and the package assembler (create_qti_package, main).*)
(*                                                                         *)
(* Text is a sequence of one-character strings.  Three fixed pieces of    *)
(* text that the program itself produces are kept as single elements      *)
(* (the opening and the closing of the '[eval error: ...]' placeholder,   *)
(* the messages of the exceptions, the text of an <img> tag): none of     *)
(* them holds a '$', a '~', a brace or a marker, so no scan of the        *)
(* program looks inside them.                                             *)
(***************************************************************************)
EXTENDS Integers, Sequences, FiniteSets, TLC

\* ------------------------------------------------------------------ bounds
\* The longest template collection main() is run on.
MaxTemplates == 3
\* The largest number of variants generated per template.
MaxVariants == 2
\* The largest number of instances of one run (templates x variants).
MaxInstances == 4
\* The largest number of pieces of a text handed to
\* evaluate_embedded_expressions on its own, and of literals in a marker.
MaxPieces == 2
MaxParts == 2

\* ------------------------------------------------------------- characters
Digits == <<"0", "1", "2", "3", "4", "5", "6", "7", "8", "9">>

IsDigit(c) == \E d \in 1..10 : Digits[d] = c

DigitVal(c) == (CHOOSE d \in 1..10 : Digits[d] = c) - 1

\* The letters of the model's alphabet; each may start a Python identifier.
Letters == {"a", "b", "c", "e", "l", "v", "x", "y", "z"}

IsLetter(c) == c \in Letters

\* str(n) of a Python int: decimal digits, '-' first when negative.
RECURSIVE NatToStr(_)
NatToStr(n) ==
  IF n < 10 THEN <<Digits[n + 1]>>
  ELSE NatToStr(n \div 10) \o <<Digits[(n % 10) + 1]>>

IntToStr(n) == IF n < 0 THEN <<"-">> \o NatToStr(0 - n) ELSE NatToStr(n)

\* int(d) of a run of decimal digits.
RECURSIVE StrToNat(_)
StrToNat(d) ==
  IF d = <<>> THEN 0
  ELSE StrToNat(SubSeq(d, 1, Len(d) - 1)) * 10 + DigitVal(d[Len(d)])

\* s[i:] starts with p (i counts from 1).
StartsWithAt(s, i, p) ==
  /\ i + Len(p) - 1 <= Len(s)
  /\ SubSeq(s, i, i + Len(p) - 1) = p

\* str.replace(old, new): every non-overlapping occurrence, left to right.
RECURSIVE Replace(_, _, _)
Replace(s, old, new) ==
  IF s = <<>> THEN <<>>
  ELSE IF StartsWithAt(s, 1, old)
       THEN new \o Replace(SubSeq(s, Len(old) + 1, Len(s)), old, new)
       ELSE <<Head(s)>> \o Replace(Tail(s), old, new)

\* The concatenation of a sequence of texts.
RECURSIVE Concat(_)
Concat(ss) == IF ss = <<>> THEN <<>> ELSE Head(ss) \o Concat(Tail(ss))

\* -------------------------------------------------------- Python's eval()
\* eval(expr) on the expressions the templates of this model hold: decimal
\* integers, names, the unary operators + - ~ and the binary operators + -,
\* blanks between tokens.  Every other character is a syntax error.  No name
\* is bound (a template's values are substituted as text before eval runs),
\* and no name of the model spells a Python builtin.
RECURSIVE DigitRun(_)
DigitRun(s) ==
  IF s # <<>> /\ IsDigit(Head(s)) THEN 1 + DigitRun(Tail(s)) ELSE 0

RECURSIVE NameRun(_)
NameRun(s) ==
  IF s # <<>> /\ (IsLetter(Head(s)) \/ IsDigit(Head(s)))
  THEN 1 + NameRun(Tail(s)) ELSE 0

RECURSIVE Tokenize(_)
Tokenize(s) ==
  IF s = <<>> THEN <<>>
  ELSE LET c == Head(s) IN
    IF c = " " THEN Tokenize(Tail(s))
    ELSE IF IsDigit(c)
    THEN LET n == DigitRun(s) IN
         <<[k |-> "num", s |-> SubSeq(s, 1, n)]>>
           \o Tokenize(SubSeq(s, n + 1, Len(s)))
    ELSE IF IsLetter(c)
    THEN LET n == NameRun(s) IN
         <<[k |-> "name", s |-> SubSeq(s, 1, n)]>>
           \o Tokenize(SubSeq(s, n + 1, Len(s)))
    ELSE IF c \in {"+", "-", "~"}
    THEN <<[k |-> "op", s |-> <<c>>]>> \o Tokenize(Tail(s))
    ELSE <<[k |-> "bad", s |-> <<c>>]>> \o Tokenize(Tail(s))

\* A decimal literal: no leading zero unless every digit is zero.
ValidNumber(d) ==
  \/ Len(d) = 1
  \/ d[1] # "0"
  \/ \A i \in 1..Len(d) : d[i] = "0"

\* The grammar: unary* atom ((+|-) unary* atom)*.
RECURSIVE SyntaxOK(_, _)
SyntaxOK(t, wantOperand) ==
  IF t = <<>> THEN ~wantOperand
  ELSE LET h == Head(t) IN
    IF wantOperand
    THEN CASE h.k = "op" -> SyntaxOK(Tail(t), TRUE)
           [] h.k = "num" -> ValidNumber(h.s) /\ SyntaxOK(Tail(t), FALSE)
           [] h.k = "name" -> SyntaxOK(Tail(t), FALSE)
           [] OTHER -> FALSE
    ELSE /\ h.k = "op"
         /\ h.s # <<"~">>
         /\ SyntaxOK(Tail(t), TRUE)

ApplyUnary(op, v) ==
  CASE op = <<"-">> -> 0 - v
    [] op = <<"~">> -> 0 - v - 1
    [] OTHER -> v

\* The value of the operand at the head of t, and the tokens after it.
RECURSIVE Operand(_)
Operand(t) ==
  IF Head(t).k = "op"
  THEN LET r == Operand(Tail(t)) IN
       [v |-> ApplyUnary(Head(t).s, r.v), rest |-> r.rest]
  ELSE [v |-> StrToNat(Head(t).s), rest |-> Tail(t)]

RECURSIVE Sum(_, _)
Sum(acc, t) ==
  IF t = <<>> THEN acc
  ELSE LET r == Operand(Tail(t)) IN
       Sum(IF Head(t).s = <<"+">> THEN acc + r.v ELSE acc - r.v, r.rest)

\* str(e) of a SyntaxError; Python words it by cause, the model keeps one.
SyntaxErrorMsg == <<"invalid syntax (<string>, line 1)">>

NameErrorMsg(name) == <<"name '">> \o name \o <<"' is not defined">>

\* eval(expr): the value, or the exception's message.
PyEval(expr) ==
  LET t == Tokenize(expr)
      names == {i \in 1..Len(t) : t[i].k = "name"}
  IN IF ~SyntaxOK(t, TRUE)
     THEN [ok |-> FALSE, val |-> 0, msg |-> SyntaxErrorMsg]
     ELSE IF names # {}
     THEN [ok |-> FALSE, val |-> 0,
           msg |-> NameErrorMsg(t[CHOOSE i \in names :
                                    \A j \in names : i <= j].s)]
     ELSE LET r == Operand(t) IN
          [ok |-> TRUE, val |-> Sum(r.v, r.rest), msg |-> <<>>]

\* ------------------------------------------ evaluate_embedded_expressions
EvalOpen == <<"e", "v", "a", "l", "{">>

\* The first brace of s at or after i, or 0.
RECURSIVE FirstBrace(_, _)
FirstBrace(s, i) ==
  IF i > Len(s) THEN 0
  ELSE IF s[i] \in {"{", "}"} THEN i
  ELSE FirstBrace(s, i + 1)

\* r'eval{([^{}]*)}' matched at i: the index of the closing brace, or 0.
MatchEvalAt(s, i) ==
  IF StartsWithAt(s, i, EvalOpen)
  THEN LET j == FirstBrace(s, i + 5) IN
       IF j > 0 /\ s[j] = "}" THEN j ELSE 0
  ELSE 0

\* re.search(r'eval{([^{}]*)}', s)
HasEvalMarker(s) == \E i \in 1..Len(s) : MatchEvalAt(s, i) > 0

\* eval_match with the except branch returning nothing for the marker.
eval_match_silent(expr) ==
  LET r == PyEval(expr) IN
  IF r.ok THEN IntToStr(r.val) ELSE <<>>

\* eval_match: the text that replaces one marker.
eval_match(expr) ==
  LET r == PyEval(expr) IN
  IF r.ok THEN IntToStr(r.val)
  ELSE <<"[eval error: ">> \o r.msg \o <<"]">>

\* re.sub(r'eval{([^{}]*)}', eval_match, s), scanning from i.
RECURSIVE EvalSubFrom(_, _)
EvalSubFrom(s, i) ==
  IF i > Len(s) THEN <<>>
  ELSE LET j == MatchEvalAt(s, i) IN
       IF j > 0
       THEN eval_match(SubSeq(s, i + 5, j - 1)) \o EvalSubFrom(s, j + 1)
       ELSE <<s[i]>> \o EvalSubFrom(s, i + 1)

EvalSub(s) == EvalSubFrom(s, 1)

RECURSIVE evaluate_embedded_expressions(_)
evaluate_embedded_expressions(s) ==
  IF HasEvalMarker(s) THEN evaluate_embedded_expressions(EvalSub(s)) ELSE s


\* --------------------------------------------------------- process_question
\* str(value) of a candidate value (the model's values are ints).
PyStr(value) == IntToStr(value)

\* Every assignment random.choice can draw: one value per variable, in the
\* order of the 'variables' mapping.
Bindings(variables) ==
  {rv \in [1..Len(variables) -> [name : {variables[i].name : i \in 1..Len(variables)},
                                 value : UNION {{variables[i].values[j] :
                                                   j \in 1..Len(variables[i].values)} :
                                                i \in 1..Len(variables)}]] :
     \A i \in 1..Len(variables) :
       /\ rv[i].name = variables[i].name
       /\ \E j \in 1..Len(variables[i].values) :
            rv[i].value = variables[i].values[j]}

Placeholder(name) == <<"~">> \o name

\* Lines 98-101: the prompt's loop substitutes one variable and then
\* evaluates the markers, once per variable.
RECURSIVE ExpandPrompt(_, _)
ExpandPrompt(text, rv) ==
  IF rv = <<>> THEN text
  ELSE ExpandPrompt(
         evaluate_embedded_expressions(
           Replace(text, Placeholder(Head(rv).name), PyStr(Head(rv).value))),
         Tail(rv))

\* Lines 107-108 and 115-116: the loop substitutes every variable.
RECURSIVE SubstituteAll(_, _)
SubstituteAll(text, rv) ==
  IF rv = <<>> THEN text
  ELSE SubstituteAll(
         Replace(text, Placeholder(Head(rv).name), PyStr(Head(rv).value)),
         Tail(rv))

\* Lines 106-110 and 114-117: a choice, and the correct answer, are
\* evaluated once, after the loop.
ExpandChoice(text, rv) == evaluate_embedded_expressions(SubstituteAll(text, rv))

\* Line 369: version_id += 1.  AdvanceVersionStuck leaves the increment out.
AdvanceVersionStuck(version_id) == version_id

AdvanceVersion(version_id) == version_id + 1

InstanceId(template_id, version_id) ==
  template_id \o <<"_", "v">> \o IntToStr(version_id)

process_question(question, version_id, rv) ==
  [id |-> InstanceId(question.id, version_id),
   prompt |-> ExpandPrompt(question.prompt, rv),
   choices |-> [i \in 1..Len(question.choices) |->
                  ExpandChoice(question.choices[i], rv)],
   correct |-> ExpandChoice(question.correct, rv)]

\* ------------------------------------------------------ inline-math scans
\* The first '$' of s at or after i, or 0.  (No text of the model holds a
\* line break, the one character '.' does not match.)
RECURSIVE NextDollar(_, _)
NextDollar(s, i) ==
  IF i > Len(s) THEN 0
  ELSE IF s[i] = "$" THEN i
  ELSE NextDollar(s, i + 1)

\* re.findall(r'\$(.+?)\$', text) from i: at least one character between
\* the delimiters, which may itself be a '$'.
RECURSIVE FindAllLatex(_, _)
FindAllLatex(s, i) ==
  IF i > Len(s) THEN <<>>
  ELSE IF s[i] = "$" /\ NextDollar(s, i + 2) > 0
       THEN LET j == NextDollar(s, i + 2) IN
            <<SubSeq(s, i + 1, j - 1)>> \o FindAllLatex(s, j + 1)
       ELSE FindAllLatex(s, i + 1)

\* hexdigest()[:8] + '.png': the digest is named by the text it digests.
sanitize_latex_expr(latex_expr) == <<"md5[:8]", latex_expr, ".png">>

RECURSIVE generate_latex_images_from(_)
generate_latex_images_from(texts) ==
  IF texts = <<>> THEN <<>>
  ELSE LET m == FindAllLatex(Head(texts), 1) IN
       [k \in 1..Len(m) |-> <<m[k], sanitize_latex_expr(m[k])>>]
         \o generate_latex_images_from(Tail(texts))

generate_latex_images(prompt, choices) ==
  generate_latex_images_from(<<prompt>> \o choices)

\* Lines 201-218: re.finditer(r'(\$.*?\$)', prompt) from i, the text before
\* each match, the match without its delimiters, the text after the last.
\* last is the model's last_index + 1.
RECURSIVE TextSegments(_, _, _)
TextSegments(s, i, last) ==
  IF i > Len(s)
  THEN IF last <= Len(s)
       THEN <<[type |-> "text", content |-> SubSeq(s, last, Len(s))]>>
       ELSE <<>>
  ELSE IF s[i] = "$" /\ NextDollar(s, i + 1) > 0
       THEN LET j == NextDollar(s, i + 1) IN
            (IF i > last
             THEN <<[type |-> "text", content |-> SubSeq(s, last, i - 1)]>>
             ELSE <<>>)
            \o <<[type |-> "latex", content |-> SubSeq(s, i + 1, j - 1)]>>
            \o TextSegments(s, j + 1, j + 1)
       ELSE TextSegments(s, i + 1, last)

ImgTag(filename) == <<"<img src=\"images/", filename, "\" alt=\"LaTeX Image\" />">>

\* Lines 221-228: image_index counts from 0, as in the code;
\* latex_images[image_index] is the model's latex_images[image_index + 1].
RECURSIVE BuildHtml(_, _, _)
BuildHtml(segments, latex_images, image_index) ==
  IF segments = <<>>
  THEN [ok |-> TRUE, html |-> <<>>, image_index |-> image_index]
  ELSE IF Head(segments).type = "text"
  THEN LET r == BuildHtml(Tail(segments), latex_images, image_index) IN
       [ok |-> r.ok, html |-> Head(segments).content \o r.html,
        image_index |-> r.image_index]
  ELSE IF image_index >= Len(latex_images)
  THEN [ok |-> FALSE, html |-> <<>>, image_index |-> image_index]
  ELSE LET r == BuildHtml(Tail(segments), latex_images, image_index + 1) IN
       [ok |-> r.ok,
        html |-> <<ImgTag(latex_images[image_index + 1][2])>> \o r.html,
        image_index |-> r.image_index]

\* ok = FALSE: latex_images[image_index] raised IndexError.
process_text_with_latex(prompt, latex_images, image_index) ==
  BuildHtml(TextSegments(prompt, 1, 1), latex_images, image_index)

\* -------------------------------------------------- generate_qti_item_xml
\* Lines 239-242: the choices are spliced in order, image_index carried on.
RECURSIVE SpliceChoices(_, _, _)
SpliceChoices(choices, latex_images, image_index) ==
  IF choices = <<>>
  THEN [ok |-> TRUE, htmls |-> <<>>]
  ELSE LET r == process_text_with_latex(Head(choices), latex_images, image_index) IN
       IF ~r.ok THEN [ok |-> FALSE, htmls |-> <<>>]
       ELSE LET rest == SpliceChoices(Tail(choices), latex_images, r.image_index) IN
            [ok |-> rest.ok, htmls |-> <<r.html>> \o rest.htmls]

\* f"choice{n}"
ChoiceIdent(n) == <<"choice", n>>

\* choices.index(correct): the first index (from 0) whose element equals
\* correct, or -1 where the code raises ValueError.
ListIndex(choices, correct) ==
  IF \E k \in 1..Len(choices) : choices[k] = correct
  THEN (CHOOSE k \in 1..Len(choices) :
          /\ choices[k] = correct
          /\ \A m \in 1..(k - 1) : choices[m] # correct) - 1
  ELSE 0 - 1

\* Lines 272-273 with the '+ 1' of line 273 left out.
CorrectIdentFromZero(choices, correct) ==
  LET correct_index == ListIndex(choices, correct) IN
  IF correct_index < 0 THEN <<"ValueError">>
  ELSE ChoiceIdent(correct_index)

\* Lines 272-273.
CorrectIdent(choices, correct) ==
  LET correct_index == ListIndex(choices, correct) IN
  IF correct_index < 0 THEN <<"ValueError">>
  ELSE ChoiceIdent(correct_index + 1)

NoDoc ==
  [ident |-> <<>>, title |-> <<>>, prompt_html |-> <<>>, labels |-> <<>>,
   varequal |-> <<>>]

\* The item document, or the exception raised on the way to it.  The
\* document is kept as its elements (identifier, prompt markup, response
\* labels, scoring rule); prettify's serialisation of them is left out.
generate_qti_item_xml(question_id, prompt, choices, correct, latex_images) ==
  LET p == process_text_with_latex(prompt, latex_images, 0) IN
  IF ~p.ok THEN [err |-> "IndexError", doc |-> NoDoc]
  ELSE LET c == SpliceChoices(choices, latex_images, p.image_index) IN
  IF ~c.ok THEN [err |-> "IndexError", doc |-> NoDoc]
  ELSE LET correct_ident == CorrectIdent(choices, correct) IN
  IF correct_ident = <<"ValueError">> THEN [err |-> "ValueError", doc |-> NoDoc]
  ELSE [err |-> "none",
        doc |-> [ident |-> question_id,
                 title |-> question_id,
                 prompt_html |-> p.html,
                 labels |-> [i \in 1..Len(choices) |->
                               [ident |-> ChoiceIdent(i), html |-> c.htmls[i]]],
                 varequal |-> correct_ident]]

\* --------------------------------------------------- generate_manifest_xml
\* os.path.basename of an image path of create_qti_package.
Basename(image_filename) == image_filename[2]

\* One resource per item; under each, its own file and one file element per
\* entry of image_files (lines 318-331).
generate_manifest_xml(items, image_files) ==
  [i \in 1..Len(items) |->
     [identifier |-> items[i][2],
      href |-> items[i][1],
      files |-> <<items[i][1]>>
                  \o [k \in 1..Len(image_files) |->
                        <<"images", Basename(image_files[k])>>]]]

\* ------------------------------------------------------ create_qti_package
\* f'question{i + 1}.xml', i from 0: the model's index n is i + 1.
ItemFileName(n) == <<"question", n, ".xml">>

ManifestFileName == <<"imsmanifest.xml">>

\* latex_str.strip() is empty: save_latex_image returns before it renders.
RECURSIVE IsBlank(_)
IsBlank(latex_str) ==
  \/ latex_str = <<>>
  \/ Head(latex_str) = " " /\ IsBlank(Tail(latex_str))

\* The files of a directory listing without f, and with f put last if new.
AddFile(listing, f) ==
  IF \E k \in 1..Len(listing) : listing[k] = f THEN listing
  ELSE Append(listing, f)

\* os.walk("qti_temp") top-down: the files of the root, then those of
\* images/.  Within a directory the model lists files as they were created.
IsRootFile(f) == f[1] # "images"

os_walk(listing) ==
  SelectSeq(listing, IsRootFile)
    \o SelectSeq(listing, LAMBDA f : ~IsRootFile(f))

\* ------------------------------------------------------------------ inputs
Txt_x == <<"~", "x">>
Txt_y == <<"~", "y">>
Txt_sum == <<"e", "v", "a", "l", "{", "~", "x", "+", "~", "y", "}">>

\* Scenario A of the specification, bound to x = 2, y = 4 or y = 2.
TScenarioA ==
  [id |-> <<"q", "1">>,
   prompt |-> <<"W", "h", "a", "t", " ", "i", "s", " ", "~", "x", " ", "+",
                " ", "~", "y", "?">>,
   choices |-> <<Txt_x, Txt_y, Txt_sum>>,
   correct |-> Txt_sum,
   variables |-> <<[name |-> <<"x">>, values |-> <<2>>],
                   [name |-> <<"y">>, values |-> <<4, 2>>]>>]

\* One text, a marker over two variables, as prompt, choice and answer.
TSameText ==
  [id |-> <<"q", "1">>,
   prompt |-> Txt_sum,
   choices |-> <<Txt_sum, Txt_x>>,
   correct |-> Txt_sum,
   variables |-> <<[name |-> <<"x">>, values |-> <<2>>],
                   [name |-> <<"y">>, values |-> <<4>>]>>]

\* Two choices that may expand to one text; one expression twice in the prompt.
TTwins ==
  [id |-> <<"q", "_", "v", "1">>,
   prompt |-> <<"$", "a", "$", "$", "a", "$">>,
   choices |-> <<Txt_x, Txt_y>>,
   correct |-> Txt_x,
   variables |-> <<[name |-> <<"x">>, values |-> <<2>>],
                   [name |-> <<"y">>, values |-> <<2, 3>>]>>]

\* An empty math segment.
TEmptyMath ==
  [id |-> <<"q">>,
   prompt |-> <<"$", "$">>,
   choices |-> <<<<"a">>>>,
   correct |-> <<"a">>,
   variables |-> <<>>]

\* An unpaired delimiter in the prompt, a blank expression in the choice.
TOddDollar ==
  [id |-> <<"q">>,
   prompt |-> <<"a", "$", "b">>,
   choices |-> <<<<"$", " ", "$">>>>,
   correct |-> <<"$", " ", "$">>,
   variables |-> <<>>]

\* An answer that is none of the choices; a marker and no variable.
TNoMatch ==
  [id |-> <<"q", "_", "v", "1">>,
   prompt |-> <<"e", "v", "a", "l", "{", "1", "}">>,
   choices |-> <<<<"e", "v", "a", "l", "{", "1", "}">>>>,
   correct |-> <<"b">>,
   variables |-> <<>>]

TemplateBank ==
  {TScenarioA, TSameText, TTwins, TEmptyMath, TOddDollar, TNoMatch}

\* The template collections of the model: up to MaxTemplates templates.
TemplateLists == UNION {[1..n -> TemplateBank] : n \in 0..MaxTemplates}

\* The texts evaluate_embedded_expressions is run on by itself: up to
\* MaxPieces pieces, each a literal or a marker; a marker holds up to
\* MaxParts literals, or a marker of at most one literal and a literal.
ExprLits == {<<"1">>, <<"+", "2">>, <<"x">>}

TextLits == {<<"a">>, <<"e", "v", "a", "l">>}

Lit(t) == [marker |-> FALSE, text |-> t, parts |-> <<>>]

Marker(parts) == [marker |-> TRUE, text |-> <<>>, parts |-> parts]

FlatMarkers ==
  {Marker(p) : p \in UNION {[1..n -> {Lit(t) : t \in ExprLits}] :
                               n \in 0..MaxParts}}

InnerMarkers ==
  {Marker(p) : p \in UNION {[1..n -> {Lit(t) : t \in ExprLits}] : n \in 0..1}}

NestedMarkers ==
  {Marker(<<m>>) : m \in InnerMarkers}
    \cup {Marker(<<m, Lit(t)>>) : m \in InnerMarkers, t \in ExprLits}

Pieces == {Lit(t) : t \in TextLits} \cup FlatMarkers \cup NestedMarkers

PieceLists == UNION {[1..n -> Pieces] : n \in 0..MaxPieces}

\* The text of a piece: a literal as it is, a marker as eval{...}.
RECURSIVE Flatten(_)
Flatten(piece) ==
  IF ~piece.marker THEN piece.text
  ELSE EvalOpen
         \o Concat([i \in 1..Len(piece.parts) |-> Flatten(piece.parts[i])])
         \o <<"}">>

\* ------------------------------------------------------------------- state
VARIABLES
  templates,            \* main: questions, as loaded
  variants,             \* main: the range of the inner loop
  pc,                   \* where main / create_qti_package stands
  ti,                   \* main: the template the outer loop is at
  vi,                   \* main: the variant the inner loop is at
  version_id,           \* main: version_id
  processed_questions,  \* main: processed_questions
  qi,                   \* create_qti_package: i + 1 of the item loop
  manifest_items,       \* create_qti_package: manifest_items
  image_files,          \* create_qti_package: image_files
  staging,              \* whether the directory qti_temp exists
  listing,              \* the files under qti_temp
  item_docs,            \* the item documents written, by question
  manifest,             \* the resources of imsmanifest.xml, once written
  archive,              \* qti_package.zip: whether it exists, its entries
  zi,                   \* how many files of the walk the zip loop has done
  error,                \* the exception that ended the run, or "none"
  ev_in,                \* evaluate_embedded_expressions: the pieces of s
  ev_s,                 \* evaluate_embedded_expressions: s
  ev_pc                 \* evaluate_embedded_expressions: where it stands

vars ==
  <<templates, variants, pc, ti, vi, version_id, processed_questions, qi,
    manifest_items, image_files, staging, listing, item_docs, manifest,
    archive, zi, error, ev_in, ev_s, ev_pc>>

mainVars == <<templates, variants, ti, vi, version_id, processed_questions>>
packVars ==
  <<qi, manifest_items, image_files, staging, listing, item_docs, manifest,
    archive, zi>>
evalVars == <<ev_in, ev_s, ev_pc>>

InitPackage ==
  /\ ti = 1
  /\ vi = 1
  /\ version_id = 1
  /\ processed_questions = <<>>
  /\ qi = 1
  /\ manifest_items = <<>>
  /\ image_files = <<>>
  /\ staging = FALSE
  /\ listing = <<>>
  /\ item_docs = <<>>
  /\ manifest = <<>>
  /\ archive = [exists |-> FALSE, entries |-> {}]
  /\ zi = 0
  /\ error = "none"

\* main() entered: the questions are loaded, no file of a run exists.  The
\* source fixes the inner loop at range(1); the model runs it at 1 and more.
Init ==
  /\ templates \in TemplateLists
  /\ variants \in 1..MaxVariants
  /\ Len(templates) * variants <= MaxInstances
  /\ pc = "main"
  /\ InitPackage
  /\ ev_in = <<>>
  /\ ev_s = <<>>
  /\ ev_pc = "off"

\* ------------------------------------------------------------------- main
\* One pass of the inner loop: random.choice binds the variables,
\* process_question expands the template, version_id is incremented.
MainProcess ==
  /\ pc = "main"
  /\ ti <= Len(templates)
  /\ \E rv \in Bindings(templates[ti].variables) :
       processed_questions' =
         Append(processed_questions,
                process_question(templates[ti], version_id, rv))
  /\ version_id' = AdvanceVersion(version_id)
  /\ IF vi < variants
     THEN vi' = vi + 1 /\ ti' = ti
     ELSE vi' = 1 /\ ti' = ti + 1
  /\ UNCHANGED <<templates, variants, pc, error>>
  /\ UNCHANGED packVars
  /\ UNCHANGED evalVars

\* The loops are over: create_qti_package(processed_questions) is called.
MainCall ==
  /\ pc = "main"
  /\ ti > Len(templates)
  /\ pc' = "makedirs"
  /\ UNCHANGED <<error>>
  /\ UNCHANGED mainVars
  /\ UNCHANGED packVars
  /\ UNCHANGED evalVars

\* -------------------------------------------------------- create_qti_package
\* Lines 129-134.
MakeDirs ==
  /\ pc = "makedirs"
  /\ staging' = TRUE
  /\ manifest_items' = <<>>
  /\ image_files' = <<>>
  /\ qi' = 1
  /\ pc' = "items"
  /\ UNCHANGED <<listing, item_docs, manifest, archive, zi, error>>
  /\ UNCHANGED mainVars
  /\ UNCHANGED evalVars

ImagePath(image) == <<"qti_temp/images", image[2]>>

\* The listing after save_latex_image ran on each image: a blank expression
\* is skipped; any other is written, or its rendering raised and the
\* exception was swallowed (rendered[k] tells which).
RECURSIVE SaveImages(_, _, _, _)
SaveImages(files, latex_images, rendered, k) ==
  IF k > Len(latex_images) THEN files
  ELSE SaveImages(
         IF ~IsBlank(latex_images[k][1]) /\ rendered[k]
         THEN AddFile(files, <<"images", latex_images[k][2]>>)
         ELSE files,
         latex_images, rendered, k + 1)

\* One pass of the item loop (lines 136-150).  open(file_path, "wb") creates
\* the file before generate_qti_item_xml runs, so it exists when that raises.
EncodeItem ==
  /\ pc = "items"
  /\ qi <= Len(processed_questions)
  /\ LET q == processed_questions[qi]
         file_name == ItemFileName(qi)
         latex_images == generate_latex_images(q.prompt, q.choices)
         r == generate_qti_item_xml(q.id, q.prompt, q.choices, q.correct,
                                    latex_images)
     IN /\ manifest_items' = Append(manifest_items, <<file_name, q.id>>)
        /\ image_files' =
             image_files \o [k \in 1..Len(latex_images) |->
                               ImagePath(latex_images[k])]
        /\ \E rendered \in [1..Len(latex_images) -> BOOLEAN] :
             listing' =
               AddFile(SaveImages(listing, latex_images, rendered, 1), file_name)
        /\ IF r.err = "none"
           THEN /\ item_docs' = Append(item_docs, r.doc)
                /\ qi' = qi + 1
                /\ UNCHANGED <<pc, error>>
           ELSE /\ pc' = "raised"
                /\ error' = r.err
                /\ UNCHANGED <<item_docs, qi>>
  /\ UNCHANGED <<staging, manifest, archive, zi>>
  /\ UNCHANGED mainVars
  /\ UNCHANGED evalVars

\* Lines 153-154.
WriteManifest ==
  /\ pc = "items"
  /\ qi > Len(processed_questions)
  /\ manifest' = generate_manifest_xml(manifest_items, image_files)
  /\ listing' = AddFile(listing, ManifestFileName)
  /\ pc' = "zip_open"
  /\ UNCHANGED <<qi, manifest_items, image_files, staging, item_docs, archive,
                 zi, error>>
  /\ UNCHANGED mainVars
  /\ UNCHANGED evalVars

\* Line 158: ZipFile(zip_name, "w") creates, or truncates, the archive.
ZipOpen ==
  /\ pc = "zip_open"
  /\ archive' = [exists |-> TRUE, entries |-> {}]
  /\ zi' = 0
  /\ pc' = "zip"
  /\ UNCHANGED <<qi, manifest_items, image_files, staging, listing, item_docs,
                 manifest, error>>
  /\ UNCHANGED mainVars
  /\ UNCHANGED evalVars

\* Line 161: one file of the walk is written into the archive.
ZipWrite ==
  /\ pc = "zip"
  /\ zi < Len(os_walk(listing))
  /\ archive' = [exists |-> TRUE,
                 entries |-> archive.entries \cup {os_walk(listing)[zi + 1]}]
  /\ zi' = zi + 1
  /\ UNCHANGED <<pc, qi, manifest_items, image_files, staging, listing,
                 item_docs, manifest, error>>
  /\ UNCHANGED mainVars
  /\ UNCHANGED evalVars

\* Line 161 raises (the disk is full, a file cannot be read): the with
\* block closes the archive as it is and the exception leaves the function.
ZipWriteFails ==
  /\ pc = "zip"
  /\ zi < Len(os_walk(listing))
  /\ pc' = "raised"
  /\ error' = "OSError"
  /\ UNCHANGED packVars
  /\ UNCHANGED mainVars
  /\ UNCHANGED evalVars

\* Lines 164-170: the walk is over, the archive is closed, qti_temp is
\* emptied and removed.
Cleanup ==
  /\ pc = "zip"
  /\ zi = Len(os_walk(listing))
  /\ listing' = <<>>
  /\ staging' = FALSE
  /\ pc' = "return"
  /\ UNCHANGED <<qi, manifest_items, image_files, item_docs, manifest, archive,
                 zi, error>>
  /\ UNCHANGED mainVars
  /\ UNCHANGED evalVars

\* Line 172, and main's print.
Return ==
  /\ pc = "return"
  /\ pc' = "done"
  /\ UNCHANGED <<error>>
  /\ UNCHANGED mainVars
  /\ UNCHANGED packVars
  /\ UNCHANGED evalVars

Next ==
  \/ MainProcess
  \/ MainCall
  \/ MakeDirs
  \/ EncodeItem
  \/ WriteManifest
  \/ ZipOpen
  \/ ZipWrite
  \/ ZipWriteFails
  \/ Cleanup
  \/ Return

Spec == Init /\ [][Next]_vars

\* -------------------------------- evaluate_embedded_expressions, by itself
InitEval ==
  /\ templates = <<>>
  /\ variants = 1
  /\ pc = "off"
  /\ InitPackage
  /\ ev_in \in PieceLists
  /\ ev_s = Concat([i \in 1..Len(ev_in) |-> Flatten(ev_in[i])])
  /\ ev_pc = "loop"

\* Lines 82-83: re.search finds a marker, re.sub replaces every one.
EvalPass ==
  /\ ev_pc = "loop"
  /\ HasEvalMarker(ev_s)
  /\ ev_s' = EvalSub(ev_s)
  /\ UNCHANGED <<ev_in, ev_pc, pc, error>>
  /\ UNCHANGED mainVars
  /\ UNCHANGED packVars

\* Line 85: re.search finds none.
EvalReturn ==
  /\ ev_pc = "loop"
  /\ ~HasEvalMarker(ev_s)
  /\ ev_pc' = "returned"
  /\ UNCHANGED <<ev_in, ev_s, pc, error>>
  /\ UNCHANGED mainVars
  /\ UNCHANGED packVars

NextEval == EvalPass \/ EvalReturn

SpecEval == InitEval /\ [][NextEval]_vars

\* ------------------------------------------------------------------ claims
\* The template a processed question was made from.
TemplateOf(k) == templates[((k - 1) \div variants) + 1]

\* The questions the item loop has taken up.
Encoded == 1..Len(manifest_items)

Exited == pc \in {"done", "raised"}

\* C1: after create_qti_package ends, by return or by an exception, the
\* staging directory qti_temp does not exist.
C1_StagingRemovedOnEveryExit == Exited => ~staging

\* C2: a run ends with one complete archive (every item document, the
\* manifest and every asset file in it) or with no archive on disk.
C2_CompleteArchiveOrNone ==
  Exited =>
    \/ ~archive.exists
    \/ /\ \A k \in 1..Len(processed_questions) :
            ItemFileName(k) \in archive.entries
       /\ ManifestFileName \in archive.entries
       /\ \A k \in 1..Len(image_files) :
            <<"images", Basename(image_files[k])>> \in archive.entries

\* C3: the instance ids of one run are pairwise distinct.
C3_InstanceIdsDistinct ==
  \A i, j \in 1..Len(processed_questions) :
    i # j => processed_questions[i].id # processed_questions[j].id

\* Two instances of one run come from templates of one id, an id that ends
\* in a '_v<number>' suffix.
C3_Witness ==
  \E i, j \in 1..Len(processed_questions) :
    /\ i # j
    /\ TemplateOf(i).id = <<"q", "_", "v", "1">>
    /\ TemplateOf(j).id = <<"q", "_", "v", "1">>

Matches(q) == {c \in 1..Len(q.choices) : q.choices[c] = q.correct}

\* C4: an item document is emitted only for a question whose expanded
\* correct value equals exactly one expanded choice; with no match, or more
\* than one, an error is raised instead.
C4_ExactlyOneMatchOrError ==
  \A k \in 1..Len(item_docs) :
    Cardinality(Matches(processed_questions[k])) = 1

\* C5: in every item document the i-th choice has the identifier choice<i>,
\* counting from 1 in the original order, and the scoring rule names a choice
\* whose plain expanded text equals correct.
C5_ChoiceIdentsAndScoring ==
  \A k \in 1..Len(item_docs) :
    LET q == processed_questions[k]
        d == item_docs[k]
    IN /\ Len(d.labels) = Len(q.choices)
       /\ \A i \in 1..Len(d.labels) : d.labels[i].ident = <<"choice", i>>
       /\ \E i \in 1..Len(q.choices) :
            /\ d.varequal = <<"choice", i>>
            /\ q.choices[i] = q.correct

\* Scenario A (choices 2, 4, 6, correct 6) is scored on choice3, and a
\* question whose answer is a math segment is scored on its plain text.
C5_Witness ==
  /\ \E k \in 1..Len(item_docs) :
       /\ processed_questions[k].choices = <<<<"2">>, <<"4">>, <<"6">>>>
       /\ processed_questions[k].correct = <<"6">>
       /\ item_docs[k].varequal = <<"choice", 3>>
  /\ \E k \in 1..Len(item_docs) :
       /\ processed_questions[k].correct = <<"$", " ", "$">>
       /\ item_docs[k].varequal = <<"choice", 1>>

DollarCount(s) == Cardinality({i \in 1..Len(s) : s[i] = "$"})

HasOddDollars(q) ==
  \/ DollarCount(q.prompt) % 2 = 1
  \/ \E c \in 1..Len(q.choices) : DollarCount(q.choices[c]) % 2 = 1

\* C6: a question with an odd number of '$' in its prompt or in a choice is
\* reported as malformed: no item document comes out of it.
C6_OddDelimitersReported ==
  \A k \in 1..Len(item_docs) : ~HasOddDollars(processed_questions[k])

\* The expressions process_text_with_latex splices, prompt then choices.
LatexOf(text) ==
  LET seg == SelectSeq(TextSegments(text, 1, 1), LAMBDA g : g.type = "latex")
  IN [i \in 1..Len(seg) |-> seg[i].content]

SplicedExprs(q) ==
  LatexOf(q.prompt) \o Concat([c \in 1..Len(q.choices) |-> LatexOf(q.choices[c])])

ImageExprs(q) ==
  LET im == generate_latex_images(q.prompt, q.choices)
  IN [i \in 1..Len(im) |-> im[i][1]]

\* C7: for every question the item loop takes up, the segments that
\* process_text_with_latex splices are, in number and order, the expressions
\* of generate_latex_images, and latex_images[image_index] is in range.
C7_SegmentsMatchImages ==
  /\ error # "IndexError"
  /\ \A k \in Encoded :
       SplicedExprs(processed_questions[k]) = ImageExprs(processed_questions[k])

ManifestWritten == pc \in {"zip_open", "zip", "return", "done"}

\* How many file elements of the manifest name the asset.
AssetListings(asset) ==
  Cardinality({rp \in (1..Len(manifest)) \X (1..(Len(image_files) + 1)) :
                 /\ rp[2] <= Len(manifest[rp[1]].files)
                 /\ manifest[rp[1]].files[rp[2]] = <<"images", asset>>})

\* C8: the manifest lists every item document, in generation order, by its
\* file name and its instance id, and every distinct asset file once.
C8_ManifestListsEachOnce ==
  ManifestWritten =>
    /\ Len(manifest) = Len(processed_questions)
    /\ \A k \in 1..Len(manifest) :
         /\ manifest[k].href = ItemFileName(k)
         /\ manifest[k].identifier = processed_questions[k].id
    /\ \A k \in 1..Len(image_files) :
         AssetListings(Basename(image_files[k])) = 1

\* C9: a text that a template has both as its prompt and as a choice
\* expands to one string in both places.
C9_SameTextSameExpansion ==
  \A k \in 1..Len(processed_questions) :
    \A c \in 1..Len(TemplateOf(k).choices) :
      TemplateOf(k).choices[c] = TemplateOf(k).prompt =>
        processed_questions[k].choices[c] = processed_questions[k].prompt

\* What a piece comes to: a literal stays; a marker becomes the value of its
\* expression, or '[eval error: <message>]' when evaluating it raises.
RECURSIVE Expected(_)
Expected(piece) ==
  IF ~piece.marker THEN piece.text
  ELSE LET r == PyEval(Concat([i \in 1..Len(piece.parts) |->
                                 Expected(piece.parts[i])]))
       IN IF r.ok THEN IntToStr(r.val)
          ELSE <<"[eval error: ">> \o r.msg \o <<"]">>

\* C10: evaluate_embedded_expressions returns the text with every marker,
\* innermost first, replaced by its value or, where evaluating it raises,
\* by the placeholder with the message; no marker remains, the text around
\* the markers and the other markers' values are as without the error.
C10_EveryMarkerReplaced ==
  ev_pc = "returned" =>
    /\ ~HasEvalMarker(ev_s)
    /\ ev_s = Concat([i \in 1..Len(ev_in) |-> Expected(ev_in[i])])

\* A marker whose expression raises NameError, then a marker inside a marker.
C10_Witness ==
  /\ ev_pc = "returned"
  /\ ev_in = <<Marker(<<Lit(<<"x">>)>>),
               Marker(<<Marker(<<Lit(<<"1">>)>>), Lit(<<"+", "2">>)>>)>>
  /\ ev_s = <<"[eval error: ", "name '", "x", "' is not defined", "]", "3">>

====
